---- MODULE Spec2Model ----
(***************************************************************************)
(* WhisperLine: the peer session and delivery layer.                       *)
(*                                                                         *)
(* The model follows src/services/signaling.ts (class SignalingService,    *)
(* lines 10-128) and the message handling of src/App.tsx (lines 28-33 and  *)
(* 109-125).  The PeerJS transport is the environment: it raises the       *)
(* 'connection', 'open', 'data' and 'close' events the service subscribes  *)
(* to, in any order it can produce.                                        *)
(*                                                                         *)
(* Strings are sequences of tokens: "wline_v2_bob" is <<"wline_v2_",       *)
(* "bob">>.  Concatenation, toLowerCase and replace work on those.         *)
(*                                                                         *)
(* The strings of src/services/crypto.ts and of the identity functions of  *)
(* signaling.ts (lines 61-75 and 110-125) are sequences of UTF-16 code     *)
(* units, so that base64, UTF-8, slice, trim and length are computed.      *)
(***************************************************************************)
EXTENDS Naturals, Sequences, FiniteSets

\* ---------------------------------------------------------------- bounds
MaxConns == 2     \* DataConnection objects created
MaxCalls == 2     \* sendMessage and direct connectToUser invocations
MaxSignals == 3   \* 'call' events
MaxBatch == 2     \* messages in one batch of the polled inbox

\* ------------------------------------------------------------- constants
Null == <<"null">>
Undefined == 0

ID_PREFIX == <<"wline_v2_">>

LocalUsername == <<"alice">>

\* Usernames handed to connectToUser and recipients of the App's messages:
\* activeChatUser.username, which searchUsers and findOrCreateUser return in lower case.
CallerUsernames == {<<"bob">>}

\* Usernames of the remote peers that connect to the local peer.
RemoteUsernames == {<<"bob">>}

\* Payloads composed by a remote peer: its own id, any sender field.
RemoteMessages ==
  {[id |-> <<"r", 1>>, sender |-> <<"bob">>, recipient |-> LocalUsername],
   [id |-> <<"r", 2>>, sender |-> <<"eve">>, recipient |-> LocalUsername]}

\* App.sendMessage: Math.random().toString(36).substr(2, 12), a fresh id per message.
NewMessageId(n) == <<"l", n>>

\* ------------------------------------------------------- string functions
LowerTok(t) == IF t = "Bob" THEN "bob" ELSE IF t = "Alice" THEN "alice" ELSE t

ToLowerCase(s) == [i \in DOMAIN s |-> LowerTok(s[i])]

Occurrences(s, pat) ==
  {i \in 1..Len(s) : i + Len(pat) - 1 <= Len(s) /\ SubSeq(s, i, i + Len(pat) - 1) = pat}

Min(S) == CHOOSE x \in S : \A y \in S : x <= y

\* String.prototype.replace(pattern, '') with a string pattern: first occurrence only.
Replace(s, pat) ==
  IF Occurrences(s, pat) = {} THEN s
  ELSE LET i == Min(Occurrences(s, pat))
       IN  SubSeq(s, 1, i - 1) \o SubSeq(s, i + Len(pat), Len(s))

PeerId(username) == ID_PREFIX \o ToLowerCase(username)

\* ------------------------------------------------------ code unit strings
\* The printable ASCII characters, from code 32 on.
Ascii ==
  <<" ", "!", "quote", "#", "$", "%", "&", "'", "(", ")", "*", "+", ",", "-", ".", "/",
    "0", "1", "2", "3", "4", "5", "6", "7", "8", "9", ":", ";", "<", "=", ">", "?",
    "@", "A", "B", "C", "D", "E", "F", "G", "H", "I", "J", "K", "L", "M", "N", "O",
    "P", "Q", "R", "S", "T", "U", "V", "W", "X", "Y", "Z", "[", "backslash", "]", "^", "_",
    "backtick", "a", "b", "c", "d", "e", "f", "g", "h", "i", "j", "k", "l", "m", "n", "o",
    "p", "q", "r", "s", "t", "u", "v", "w", "x", "y", "z", "{", "|", "}", "~">>

CharCode(ch) == 31 + (CHOOSE i \in DOMAIN Ascii : Ascii[i] = ch)

\* The string whose characters are chars.
Str(chars) == [i \in DOMAIN chars |-> CharCode(chars[i])]

StartsWith(s, pat) == Len(s) >= Len(pat) /\ SubSeq(s, 1, Len(pat)) = pat

\* s.replace(/^pat/, ''): the pattern is anchored at the start.
ReplaceAtStart(s, pat) ==
  IF StartsWith(s, pat) THEN SubSeq(s, Len(pat) + 1, Len(s)) ELSE s

\* s.split(sep)[0]: the text before the first sep, all of s without one.
SplitFirst(s, sep) ==
  IF Occurrences(s, sep) = {} THEN s ELSE SubSeq(s, 1, Min(Occurrences(s, sep)) - 1)

\* s.slice(0, n).
Slice(s, n) == SubSeq(s, 1, IF Len(s) < n THEN Len(s) ELSE n)

\* ----------------------------------------------------------- Map helpers
MapHas(m, k) == k \in DOMAIN m
MapGet(m, k) == IF k \in DOMAIN m THEN m[k] ELSE Undefined
MapSet(m, k, v) == [x \in (DOMAIN m) \cup {k} |-> IF x = k THEN v ELSE m[x]]
MapDeleteNothing(m, k) == m

MapDelete(m, k) == [x \in (DOMAIN m) \ {k} |-> m[x]]
EmptyMap == [x \in {} |-> Undefined]

\* ------------------------------------------------------------------ state
VARIABLES
  peer,               \* SignalingService.peer: Null or the local peer id
  onMessageCallback,  \* Null or the registered consumer
  onCallCallback,     \* Null or the registered call consumer
  connections,        \* SignalingService.connections: username -> DataConnection
  conns,              \* every DataConnection object created so far
  connects,           \* connectToUser invocations (their promise and timer)
  sends,              \* sendMessage invocations
  wire,               \* conn.send calls, in the order they were made
  messages,           \* App: the messages state
  decryptedMessages,  \* App: the decryptedMessages state, message id -> text shown
  deliveredLog,       \* history: messages the consumer added on an inbound delivery
  redelivered,        \* history: an id already delivered inbound has arrived again
  storage,            \* window.localStorage: key -> value
  wipes,              \* history: the latest wipe, if any
  callSignals,        \* history: the 'call' events and what the call consumer was handed
  registrations,      \* history: the latest registerUser call, if any
  lookups,            \* history: the two latest findOrCreateUser and searchUsers calls
  encrypted,          \* the latest encryptMessage call, if any
  decrypted           \* the latest decryptMessage call, if any

vars == <<peer, onMessageCallback, onCallCallback, connections, conns, connects,
          sends, wire, messages, decryptedMessages, deliveredLog, redelivered,
          storage, wipes, callSignals, registrations, lookups, encrypted, decrypted>>

svcVars == <<peer, onMessageCallback, onCallCallback>>

appVars == <<messages, decryptedMessages, deliveredLog, redelivered>>

\* The connections and what travels on them.
connVars == <<connections, conns, connects, sends, wire>>

storeVars == <<storage, wipes>>

registryVars == <<registrations, lookups>>

cryptoVars == <<encrypted, decrypted>>

\* What no connection, transport event or message touches.
localVars == <<storeVars, callSignals, registryVars, cryptoVars>>

Init ==
  /\ peer = Null
  /\ onMessageCallback = Null
  /\ onCallCallback = Null
  /\ connections = EmptyMap
  /\ conns = << >>
  /\ connects = << >>
  /\ sends = << >>
  /\ wire = << >>
  /\ messages = << >>
  /\ decryptedMessages = EmptyMap
  /\ deliveredLog = << >>
  /\ redelivered = FALSE
  /\ storage = EmptyMap
  /\ wipes = << >>
  /\ callSignals = << >>
  /\ registrations = << >>
  /\ lookups = << >>
  /\ encrypted = << >>
  /\ decrypted = << >>

\* ------------------------------------------------------------------- init
\* The callbacks the App passes at App.tsx line 52.
OnMessage == <<"handleIncomingMessage">>

OnCall == <<"handleIncomingCall">>

InitPeerAnew(current, username) == PeerId(username)

\* Lines 23-25: if (this.peer) return; otherwise new Peer(prefix + lowercased username).
InitPeer(current, username) == IF current # Null THEN current ELSE PeerId(username)

\* Lines 19-44.  The handlers of lines 31-39 are registered with the new peer only.
init(username, onMessage, onCall) ==
  /\ onMessageCallback' = onMessage
  /\ onCallCallback' = onCall
  /\ peer' = InitPeer(peer, username)
  /\ UNCHANGED <<connections, conns, connects, sends, wire, appVars, localVars>>

\* -------------------------------------------------------- setupConnection
RemoteUsername(c, cs) == Replace(cs[c].peer, ID_PREFIX)

\* The connection table after setupConnection(conn c).
SetupConnectionTable(c, cs, table) == MapSet(table, RemoteUsername(c, cs), c)

\* The connection objects after setupConnection(conn c): 'data' and 'close' handlers on.
SetupConnectionConns(c, cs) == [cs EXCEPT ![c].handlers = TRUE]

\* ------------------------------------------------ App.handleIncomingMessage
HandleIncomingMessageNoCheck(prev, msg) == Append(prev, msg)

\* Lines 28-33: setMessages(prev => prev.find(m => m.id === msg.id) ? prev : [...prev, msg]).
HandleIncomingMessage(prev, msg) ==
  IF \E i \in DOMAIN prev : prev[i].id = msg.id THEN prev ELSE Append(prev, msg)

\* ---------------------------------------------------------- connectToUser
TableHitNever(table, username) == FALSE

\* Line 81: the early return on a table hit.
TableHit(table, username) == MapHas(table, username)

\* How the promise of connectToUser(username) stands when the call returns it.
ConnectOutcome(username) ==
  IF peer = Null THEN "false"
  ELSE IF TableHit(connections, username) THEN "true"
  ELSE "pending"

ArmTimeoutNever(outcome) == FALSE

\* Line 89: setTimeout(() => resolve(false), 5000) is armed with every handshake.
ArmTimeout(outcome) == outcome = "pending"

\* Line 83: peer.connect(targetId).
NewOutgoing(username) ==
  [peer |-> PeerId(username), open |-> FALSE, closed |-> FALSE, dir |-> "out",
   handlers |-> FALSE]

\* A channel keyed by username is in the table and open.
HasOpenChannel(username) ==
  MapHas(connections, username) /\ conns[connections[username]].open

\* The invocation record.  overlap and openAtCall are history: the unresolved calls for
\* the same username, and whether the username had an open channel, at call time.
NewConnect(username, waiter) ==
  LET outcome == ConnectOutcome(username)
  IN  [username |-> username,
       conn |-> IF outcome = "pending" THEN Len(conns) + 1 ELSE Undefined,
       result |-> outcome,
       timer |-> ArmTimeout(outcome),
       waiter |-> waiter,
       overlap |-> {j \in DOMAIN connects :
                      connects[j].result = "pending" /\ connects[j].username = username},
       openAtCall |-> HasOpenChannel(username)]

\* connectToUser(username) called by `waiter` (0: a direct caller).
connectToUser(username, waiter) ==
  /\ ConnectOutcome(username) = "pending" => Len(conns) < MaxConns
  /\ connects' = Append(connects, NewConnect(username, waiter))
  /\ conns' = IF ConnectOutcome(username) = "pending"
              THEN Append(conns, NewOutgoing(username)) ELSE conns

\* Invocations made by the callers so far.
Calls == Len(sends) + Cardinality({k \in DOMAIN connects : connects[k].waiter = 0})

ConnectToUserCall(username) ==
  /\ Calls < MaxCalls
  /\ connectToUser(username, 0)
  /\ UNCHANGED <<svcVars, connections, sends, wire, appVars, localVars>>

\* ------------------------------------------------------------ sendMessage
CanSendAnyConn(conn, cs) == conn # Undefined

\* Line 103: if (conn && conn.open).
CanSend(conn, cs) == conn # Undefined /\ cs[conn].open

\* Lines 98-100: the table is read again only when connectToUser resolved true.
ConnAfterConnect(connected, recipient, table) ==
  IF connected THEN MapGet(table, recipient) ELSE Undefined

\* Lines 103-107 for the invocation record s: send, or log the error.
Finished(s, conn, cs) ==
  [s EXCEPT !.pc = "done",
            !.outcome = IF CanSend(conn, cs) THEN "sent" ELSE "notOpen",
            !.conn = IF CanSend(conn, cs) THEN conn ELSE Undefined]

Written(w, i, msg, conn, cs) ==
  IF CanSend(conn, cs) THEN Append(w, [conn |-> conn, send |-> i, msg |-> msg]) ELSE w

\* The invocation record.  queuedBefore is history: the earlier invocations that had
\* ended without a write when this one was made.
NewSend(msg) ==
  [msg |-> msg, pc |-> "await", outcome |-> "none", conn |-> Undefined,
   queuedBefore |-> {i \in DOMAIN sends : sends[i].outcome = "notOpen"}]

sendMessage(msg) ==
  LET i == Len(sends) + 1
      conn0 == MapGet(connections, msg.recipient)
      outcome == ConnectOutcome(msg.recipient)
      conn1 == ConnAfterConnect(outcome = "true", msg.recipient, connections)
  IN  IF conn0 # Undefined
      THEN /\ sends' = Append(sends, Finished(NewSend(msg), conn0, conns))
           /\ wire' = Written(wire, i, msg, conn0, conns)
           /\ UNCHANGED <<conns, connects>>
      ELSE /\ connectToUser(msg.recipient, i)
           /\ IF outcome = "pending"
              THEN /\ sends' = Append(sends, NewSend(msg))
                   /\ wire' = wire
              ELSE /\ sends' = Append(sends, Finished(NewSend(msg), conn1, conns))
                   /\ wire' = Written(wire, i, msg, conn1, conns)

\* Lines 93-108: Promise<void>.  Neither branch of lines 103-107 returns a value, so the
\* promise of a finished call resolves to undefined whatever the outcome was.
SendMessageResult(outcome) == Undefined

\* App.sendMessage: the message joins the list, then goes to the service.  It returns
\* early without a currentUser, and the effect of lines 50-54 has called init for one.
AppSendMessage(recipient) ==
  /\ Calls < MaxCalls
  /\ peer # Null
  /\ LET newMessage == [id |-> NewMessageId(Len(sends) + 1), sender |-> LocalUsername, recipient |-> recipient]
     IN  /\ messages' = Append(messages, newMessage)
         /\ sendMessage(newMessage)
  /\ UNCHANGED <<svcVars, connections, decryptedMessages, deliveredLog, redelivered, localVars>>

\* The continuation of sendMessage number w after its connectToUser resolved.
ResumedSends(w, connected, table, cs) ==
  IF w = 0 THEN sends
  ELSE [sends EXCEPT ![w] =
          Finished(sends[w], ConnAfterConnect(connected, sends[w].msg.recipient, table), cs)]

ResumedWire(w, connected, table, cs) ==
  IF w = 0 THEN wire
  ELSE Written(wire, w, sends[w].msg, ConnAfterConnect(connected, sends[w].msg.recipient, table), cs)

\* -------------------------------------------------------- transport events
\* peer.on('connection'): an inbound connection, announced before it is open.
PeerConnection(remote) ==
  /\ peer # Null
  /\ Len(conns) < MaxConns
  /\ LET c == Len(conns) + 1
         cs == Append(conns, [peer |-> PeerId(remote), open |-> FALSE, closed |-> FALSE,
                              dir |-> "in", handlers |-> FALSE])
     IN  /\ conns' = SetupConnectionConns(c, cs)
         /\ connections' = SetupConnectionTable(c, cs, connections)
  /\ UNCHANGED <<svcVars, connects, sends, wire, appVars, localVars>>

\* The data channel of an inbound connection opens: no handler is registered for it.
InboundOpen(c) ==
  /\ c \in DOMAIN conns
  /\ conns[c].dir = "in" /\ ~conns[c].open /\ ~conns[c].closed
  /\ conns' = [conns EXCEPT ![c].open = TRUE]
  /\ UNCHANGED <<svcVars, connections, connects, sends, wire, appVars, localVars>>

\* conn.on('open') of connectToUser, lines 85-88, and the awaiting sendMessage after it.
OutgoingOpen(k) ==
  /\ k \in DOMAIN connects
  /\ connects[k].conn # Undefined
  /\ LET c == connects[k].conn
         opened == [conns EXCEPT ![c].open = TRUE]
         cs == SetupConnectionConns(c, opened)
         table == SetupConnectionTable(c, opened, connections)
         w == IF connects[k].result = "pending" THEN connects[k].waiter ELSE 0
     IN  /\ ~conns[c].open /\ ~conns[c].closed
         /\ conns' = cs
         /\ connections' = table
         /\ connects' = [connects EXCEPT ![k].result =
                           IF @ = "pending" THEN "true" ELSE @]
         /\ sends' = ResumedSends(w, TRUE, table, cs)
         /\ wire' = ResumedWire(w, TRUE, table, cs)
  /\ UNCHANGED <<svcVars, appVars, localVars>>

\* The timer of line 89 fires: resolve(false), a no-op on a settled promise.
TimerFire(k) ==
  /\ k \in DOMAIN connects
  /\ connects[k].timer
  /\ LET w == IF connects[k].result = "pending" THEN connects[k].waiter ELSE 0
     IN  /\ connects' = [connects EXCEPT ![k].timer = FALSE,
                                         ![k].result = IF @ = "pending" THEN "false" ELSE @]
         /\ sends' = ResumedSends(w, FALSE, connections, conns)
         /\ wire' = ResumedWire(w, FALSE, connections, conns)
  /\ UNCHANGED <<svcVars, connections, conns, appVars, localVars>>

\* conn.on('data'), lines 50-54, into App.handleIncomingMessage.
Received(c, data) ==
  /\ c \in DOMAIN conns
  /\ conns[c].open /\ conns[c].handlers
  /\ IF onMessageCallback # Null
     THEN /\ messages' = HandleIncomingMessage(messages, data)
          /\ deliveredLog' =
               IF messages' # messages
               THEN Append(deliveredLog, [msg |-> data, from |-> RemoteUsername(c, conns),
                                         to |-> onMessageCallback])
               ELSE deliveredLog
          /\ redelivered' =
               (redelivered \/ \E i \in DOMAIN deliveredLog : deliveredLog[i].msg.id = data.id)
     ELSE UNCHANGED <<messages, deliveredLog, redelivered>>
  /\ UNCHANGED <<svcVars, connections, conns, connects, sends, wire, localVars>>

\* The payloads here carry no content: there is nothing for the decryptAll effect to do.
ConnData(c, data) == Received(c, data) /\ UNCHANGED decryptedMessages

\* The connection closes (either side); conn.on('close'), lines 56-58, if registered.
ConnClose(c) ==
  /\ c \in DOMAIN conns
  /\ ~conns[c].closed
  /\ conns' = [conns EXCEPT ![c].open = FALSE, ![c].closed = TRUE]
  /\ connections' = IF conns[c].handlers
                    THEN MapDelete(connections, RemoteUsername(c, conns))
                    ELSE connections
  /\ UNCHANGED <<svcVars, connects, sends, wire, appVars, localVars>>

\* What arrives on a connection: a remote payload, or one the peer got and sends back.
InboundMessages == RemoteMessages \cup {wire[i].msg : i \in DOMAIN wire}

\* The calls into the service and the transport events on its connections.
ConnNext ==
  \/ init(LocalUsername, OnMessage, OnCall)
  \/ \E u \in CallerUsernames : ConnectToUserCall(u)
  \/ \E u \in CallerUsernames : AppSendMessage(u)
  \/ \E r \in RemoteUsernames : PeerConnection(r)
  \/ \E c \in 1..MaxConns : InboundOpen(c)
  \/ \E k \in 1..MaxCalls : OutgoingOpen(k)
  \/ \E k \in 1..MaxCalls : TimerFire(k)
  \/ \E c \in 1..MaxConns : ConnClose(c)

DataNext == \E c \in 1..MaxConns, d \in InboundMessages : ConnData(c, d)

Next == ConnNext \/ DataNext

Spec == Init /\ [][Next]_vars

\* The event loop runs every timer that is due; nothing is assumed of the transport.
\* Inbound data is left out here: ConnData neither reads nor writes the connectToUser
\* records, the connection objects or the table, so it cannot delay or settle a call.
FairSpec ==
  Init /\ [][ConnNext]_vars /\ \A k \in 1..MaxCalls : WF_vars(TimerFire(k))

\* ----------------------------------------------------------------- base64
Pad == CharCode("=")

NotBase64 == 64

\* The base64 alphabet: the character of the six-bit value v is Base64Alphabet[v + 1].
Base64Alphabet ==
  Str(<<"A", "B", "C", "D", "E", "F", "G", "H", "I", "J", "K", "L", "M", "N", "O", "P",
        "Q", "R", "S", "T", "U", "V", "W", "X", "Y", "Z", "a", "b", "c", "d", "e", "f",
        "g", "h", "i", "j", "k", "l", "m", "n", "o", "p", "q", "r", "s", "t", "u", "v",
        "w", "x", "y", "z", "0", "1", "2", "3", "4", "5", "6", "7", "8", "9", "+", "/">>)

Base64Char(v) == Base64Alphabet[v + 1]

Base64Index ==
  [c \in {Base64Alphabet[i] : i \in DOMAIN Base64Alphabet} |->
     CHOOSE i \in DOMAIN Base64Alphabet : Base64Alphabet[i] = c]

Base64Value(c) == IF c \in DOMAIN Base64Index THEN Base64Index[c] - 1 ELSE NotBase64

\* btoa(bytes): three bytes to four characters, '=' where the last group is short.
Btoa(bytes) ==
  LET n == Len(bytes)
      Byte(i) == IF i <= n THEN bytes[i] ELSE 0
      Group(g) == (Byte((3 * g) - 2) * 65536) + (Byte((3 * g) - 1) * 256) + Byte(3 * g)
      Char(g, k) ==
        IF k = 1 THEN Base64Char(Group(g) \div 262144)
        ELSE IF k = 2 THEN Base64Char((Group(g) \div 4096) % 64)
        ELSE IF k = 3 THEN (IF (3 * g) - 1 > n THEN Pad ELSE Base64Char((Group(g) \div 64) % 64))
        ELSE (IF 3 * g > n THEN Pad ELSE Base64Char(Group(g) % 64))
  IN  [i \in 1..(4 * ((n + 2) \div 3)) |-> Char((i + 3) \div 4, ((i - 1) % 4) + 1)]

IsAsciiWhitespace(c) == c \in {9, 10, 12, 13, 32}

\* atob(s), the forgiving base64 decode: whitespace is dropped, up to two '=' end a
\* text of a multiple of four characters, and a length of 4k+1 or any other character
\* is an InvalidCharacterError (ok = FALSE).
Atob(s) ==
  LET NotSpace(c) == ~IsAsciiWhitespace(c)
      t == SelectSeq(s, NotSpace)
      pads == IF Len(t) % 4 = 0 /\ Len(t) >= 2 /\ t[Len(t)] = Pad
              THEN (IF t[Len(t) - 1] = Pad THEN 2 ELSE 1)
              ELSE 0
      u == SubSeq(t, 1, Len(t) - pads)
      v == [i \in DOMAIN u |-> Base64Value(u[i])]
      Byte(j) ==
        LET q == ((8 * (j - 1)) \div 6) + 1
            r == (8 * (j - 1)) % 6
        IN  IF r = 0 THEN (v[q] * 4) + (v[q + 1] \div 16)
            ELSE IF r = 2 THEN ((v[q] % 16) * 16) + (v[q + 1] \div 4)
            ELSE ((v[q] % 4) * 64) + v[q + 1]
  IN  IF Len(u) % 4 = 1 \/ \E i \in DOMAIN v : v[i] = NotBase64
      THEN [ok |-> FALSE, bytes |-> << >>]
      ELSE [ok |-> TRUE, bytes |-> [j \in 1..((6 * Len(u)) \div 8) |-> Byte(j)]]

\* ------------------------------------------------------------------ UTF-8
IsHighSurrogate(c) == c \in 55296..56319

IsLowSurrogate(c) == c \in 56320..57343

Utf8OfCodePoint(cp) ==
  IF cp < 128 THEN <<cp>>
  ELSE IF cp < 2048 THEN <<192 + (cp \div 64), 128 + (cp % 64)>>
  ELSE IF cp < 65536 THEN <<224 + (cp \div 4096), 128 + ((cp \div 64) % 64), 128 + (cp % 64)>>
  ELSE <<240 + (cp \div 262144), 128 + ((cp \div 4096) % 64), 128 + ((cp \div 64) % 64),
         128 + (cp % 64)>>

\* unescape(encodeURIComponent(s)) for well-formed s: one character per UTF-8 byte.
RECURSIVE Utf8Encode(_)
Utf8Encode(s) ==
  IF s = << >> THEN << >>
  ELSE IF IsHighSurrogate(s[1]) /\ Len(s) >= 2 /\ IsLowSurrogate(s[2])
  THEN Utf8OfCodePoint(65536 + ((s[1] - 55296) * 1024) + (s[2] - 56320))
         \o Utf8Encode(SubSeq(s, 3, Len(s)))
  ELSE Utf8OfCodePoint(s[1]) \o Utf8Encode(Tail(s))

CodeUnits(cp) ==
  IF cp < 65536 THEN <<cp>>
  ELSE <<55296 + ((cp - 65536) \div 1024), 56320 + ((cp - 65536) % 1024)>>

\* decodeURIComponent(escape(bytes)): strict UTF-8; a stray or missing continuation
\* byte, an overlong form or a surrogate is a URIError (ok = FALSE).
RECURSIVE Utf8Decode(_)
Utf8Decode(b) ==
  IF b = << >> THEN [ok |-> TRUE, text |-> << >>]
  ELSE
    LET n == IF b[1] < 128 THEN 1
             ELSE IF b[1] \in 194..223 THEN 2
             ELSE IF b[1] \in 224..239 THEN 3
             ELSE IF b[1] \in 240..244 THEN 4
             ELSE 0
        Low(i) == b[i] % 64
        cp == IF n = 1 THEN b[1]
              ELSE IF n = 2 THEN ((b[1] % 32) * 64) + Low(2)
              ELSE IF n = 3 THEN ((b[1] % 16) * 4096) + (Low(2) * 64) + Low(3)
              ELSE ((b[1] % 8) * 262144) + (Low(2) * 4096) + (Low(3) * 64) + Low(4)
        rest == Utf8Decode(SubSeq(b, n + 1, Len(b)))
        failed == [ok |-> FALSE, text |-> << >>]
    IN  IF n = 0 \/ Len(b) < n THEN failed
        ELSE IF \E i \in 2..n : b[i] \notin 128..191 THEN failed
        ELSE IF (n = 3 /\ (cp < 2048 \/ cp \in 55296..57343))
                  \/ (n = 4 /\ (cp < 65536 \/ cp > 1114111)) THEN failed
        ELSE IF ~rest.ok THEN failed
        ELSE [ok |-> TRUE, text |-> CodeUnits(cp) \o rest.text]

\* ----------------------------------------------------------- localStorage
CurrentUserKey == "whisperline_current_user"

\* JSON.stringify(profile) and JSON.parse of it.
Stringify(value) == <<"json", value>>

Parse(text) == text[2]

\* The stored session, as the App loads it: no profile or one.
StoredUser ==
  IF MapHas(storage, CurrentUserKey) THEN <<Parse(storage[CurrentUserKey])>> ELSE << >>

\* ----------------------------------------------------------- registerUser
\* The generated key pairs of two registrations and the names typed for them.
Profiles ==
  {[username |-> Str(<<"a", "l", "i", "c", "e">>),
    publicKey |-> Str(<<"p", "u", "b", "_", "Q", "k", "3", "x", "Z", "9", "a", "b">>)],
   [username |-> Str(<<"a", "l", "i", "c", "e">>),
    publicKey |-> Str(<<"p", "u", "b", "_", "7", "T", "m", "w", "c", "V", "0", "e">>)]}

\* Line 113: return true.
RegisterUserResult(profile, store) == TRUE

\* Line 112: localStorage.setItem('whisperline_current_user', JSON.stringify(profile)).
RegisterUserStore(profile, store) == MapSet(store, CurrentUserKey, Stringify(profile))

registerUser(profile) ==
  /\ storage' = RegisterUserStore(profile, storage)
  /\ registrations' = <<[profile |-> profile,
                         result |-> RegisterUserResult(profile, storage),
                         before |-> storage,
                         after |-> storage']>>
  /\ UNCHANGED <<svcVars, connVars, appVars, wipes, callSignals, lookups, cryptoVars>>

\* ------------------------------------------------ findOrCreateUser, searchUsers
IsUpperCase(c) == c \in CharCode("A")..CharCode("Z")

\* s.toLowerCase() on code units.
LowerCased(s) == [i \in DOMAIN s |-> IF IsUpperCase(s[i]) THEN s[i] + 32 ELSE s[i]]

\* The white space String.prototype.trim removes: tab to carriage return, space, nbsp.
IsWhiteSpace(c) == c \in (9..13) \cup {32, 160}

\* s.trim().
Trimmed(s) ==
  LET kept == {i \in DOMAIN s : ~IsWhiteSpace(s[i])}
  IN  IF kept = {} THEN << >>
      ELSE SubSeq(s, Min(kept), CHOOSE i \in kept : \A j \in kept : j <= i)

PubPrefix == Str(<<"p", "u", "b", "_">>)

\* Lines 116-125: the identity is made from the name alone.
findOrCreateUser(username) ==
  [username |-> LowerCased(username),
   publicKey |-> PubPrefix \o username,
   displayName |-> username]

\* Lines 116-125 write nothing.
FindOrCreateUserStore(username, store) == store

\* Lines 61-75: no result for a query shorter than three, else one made from the query.
searchUsers(query) ==
  IF Len(query) < 3 THEN << >>
  ELSE <<[username |-> Trimmed(LowerCased(query)),
          publicKey |-> PubPrefix \o query,
          displayName |-> query]>>

\* Names typed into the search field or carried by a link: one name in lower case, with
\* a capital, with spaces around it; a new name; a name of two letters.
Names ==
  {Str(<<"b", "o", "b">>),
   Str(<<"B", "o", "b">>),
   Str(<<" ", "b", "o", "b", " ">>),
   Str(<<"n", "e", "w", "p", "e", "r", "s", "o", "n">>),
   Str(<<"a", "l">>)}

\* The latest two lookups, the new one last.
Pushed(log, entry) == IF Len(log) < 2 THEN Append(log, entry) ELSE <<log[2], entry>>

FindOrCreateUserCall(username) ==
  /\ storage' = FindOrCreateUserStore(username, storage)
  /\ lookups' = Pushed(lookups, [op |-> "findOrCreateUser", input |-> username,
                                 result |-> <<findOrCreateUser(username)>>,
                                 before |-> storage, after |-> storage'])
  /\ UNCHANGED <<svcVars, connVars, appVars, wipes, callSignals, registrations, cryptoVars>>

SearchUsersCall(query) ==
  /\ lookups' = Pushed(lookups, [op |-> "searchUsers", input |-> query,
                                 result |-> searchUsers(query),
                                 before |-> storage, after |-> storage])
  /\ UNCHANGED <<svcVars, connVars, appVars, storeVars, callSignals, registrations, cryptoVars>>

RegistryNext ==
  \/ \E p \in Profiles : registerUser(p)
  \/ \E n \in Names : FindOrCreateUserCall(n)
  \/ \E q \in Names : SearchUsersCall(q)

RegistrySpec == Init /\ [][RegistryNext]_vars

\* ---------------------------------------------------------- cryptoService
EncryptedPrefix == Str(<<"e", "n", "c", "r", "y", "p", "t", "e", "d", "_">>)

ViaSeparator == Str(<<"_", "v", "i", "a", "_">>)

SecureContent ==
  Str(<<"[", "S", "e", "c", "u", "r", "e", " ", "C", "o", "n", "t", "e", "n", "t", "]">>)

EncodedPlain(message) == message

\* Line 87: btoa(unescape(encodeURIComponent(message))).
Encoded(message) == Btoa(Utf8Encode(message))

\* Line 88.
encryptMessage(message, recipientPublicKey) ==
  EncryptedPrefix \o Encoded(message) \o ViaSeparator \o Slice(recipientPublicKey, 8)

\* Lines 94-104.
decryptMessage(encryptedData) ==
  IF ~StartsWith(encryptedData, EncryptedPrefix) THEN encryptedData
  ELSE LET base64 == SplitFirst(ReplaceAtStart(encryptedData, EncryptedPrefix), ViaSeparator)
           binary == Atob(base64)
           text == Utf8Decode(binary.bytes)
       IN  IF binary.ok /\ text.ok THEN text.text ELSE SecureContent

\* Texts to encrypt: empty, plain, holding the separator, looking like a payload, the
\* placeholder itself, two- and three-byte characters, a surrogate pair.
Plaintexts ==
  {<< >>,
   Str(<<"h", "i">>),
   Str(<<"a">>) \o ViaSeparator \o Str(<<"b">>),
   EncryptedPrefix \o Str(<<"x">>) \o ViaSeparator \o Str(<<"y">>),
   SecureContent,
   <<233, 8364>>,
   <<55357, 56832>>}

\* Recipient keys: of findOrCreateUser (pub_ and the name) and of a registration.
PublicKeys ==
  {Str(<<"p", "u", "b", "_", "v", "i", "a", "_", "x">>),
   Str(<<"p", "u", "b", "_", "Q", "k", "3", "x", "Z", "9", "a", "b">>)}

\* The identity of the decrypting session.
SessionProfiles ==
  {[username |-> Str(<<"a", "l", "i", "c", "e">>),
    publicKey |-> Str(<<"p", "u", "b", "_", "Q", "k", "3", "x", "Z", "9", "a", "b">>)]}

\* Contents that encryptMessage did not make: no prefix, no base64, bytes that are no
\* UTF-8, a length base64 cannot have, nothing after the prefix, no padding.
OtherPayloads ==
  {Str(<<"h", "i">>),
   EncryptedPrefix \o Str(<<"!", "!">>),
   EncryptedPrefix \o Str(<<"/", "w", "=", "=">>),
   EncryptedPrefix \o Str(<<"a">>),
   EncryptedPrefix,
   EncryptedPrefix \o Str(<<"a", "G", "k">>)}

EncryptMessageCall(message, recipientPublicKey) ==
  /\ encrypted' = <<[message |-> message,
                     recipientPublicKey |-> recipientPublicKey,
                     result |-> encryptMessage(message, recipientPublicKey),
                     wipedSince |-> FALSE]>>
  /\ UNCHANGED <<svcVars, connVars, appVars, storeVars, callSignals, registryVars, decrypted>>

\* A content arrives and the App decrypts it.  of, session and the wipedSince of `of` are
\* history: the encryptMessage call that made the content, the stored identity's key at
\* the call, and whether panicWipe ran between the two calls.
DecryptMessageCall(encryptedData) ==
  /\ decrypted' =
       <<[encryptedData |-> encryptedData,
          result |-> decryptMessage(encryptedData),
          of |-> IF encrypted # << >> /\ encrypted[1].result = encryptedData
                 THEN encrypted ELSE << >>,
          session |-> [i \in DOMAIN StoredUser |-> StoredUser[i].publicKey]]>>
  /\ UNCHANGED <<svcVars, connVars, appVars, storeVars, callSignals, registryVars, encrypted>>

\* Lines 109-112: localStorage.clear().  Nothing writes to sessionStorage.
PanicWipeStore(store) == EmptyMap

\* wipedSince of the latest encryptMessage call is history.
panicWipe ==
  /\ storage' = PanicWipeStore(storage)
  /\ encrypted' = [i \in DOMAIN encrypted |-> [encrypted[i] EXCEPT !.wipedSince = TRUE]]
  /\ UNCHANGED <<svcVars, connVars, appVars, wipes, callSignals, registryVars, decrypted>>

CryptoNext ==
  \/ \E p \in SessionProfiles : registerUser(p)
  \/ \E m \in Plaintexts, k \in PublicKeys : EncryptMessageCall(m, k)
  \/ \E d \in OtherPayloads \cup {encrypted[i].result : i \in DOMAIN encrypted} :
       DecryptMessageCall(d)
  \/ panicWipe

CryptoSpec == Init /\ [][CryptoNext]_vars

\* ------------------------------------------------------- terminate session
\* What the page holds: the storage, the service and its connections, the message list.
pageVars == <<storage, svcVars, connVars, messages, decryptedMessages>>

\* No stored identity, no peer, no connection made or in the making, no sendMessage
\* holding a message.
NothingLeft ==
  /\ storage = EmptyMap
  /\ peer = Null
  /\ connections = EmptyMap
  /\ conns = << >>
  /\ connects = << >>
  /\ sends = << >>

\* What a wipe finds: a sendMessage waiting for a handshake in flight, or exactly what
\* the wipe before it left (nothing acts on that state without changing it), and then
\* what that wipe had found.
NewWipe ==
  LET again == wipes # << >> /\ NothingLeft
  IN  [midHandshake |-> \E i \in DOMAIN sends : sends[i].pc = "await",
       again |-> again,
       afterMidHandshake |-> again /\ wipes[1].midHandshake]

ReloadedKept(value, fresh) == value

\* window.location.reload(): the page goes with every object it made, and the modules
\* are evaluated anew (signaling.ts lines 11-14, App.tsx useState initial values).
Reloaded(value, fresh) == fresh

\* The TERMINATE SESSION button: localStorage.clear(), then window.location.reload().
TerminateSession ==
  /\ storage' = PanicWipeStore(storage)
  /\ peer' = Reloaded(peer, Null)
  /\ onMessageCallback' = Reloaded(onMessageCallback, Null)
  /\ onCallCallback' = Reloaded(onCallCallback, Null)
  /\ connections' = Reloaded(connections, EmptyMap)
  /\ conns' = Reloaded(conns, << >>)
  /\ connects' = Reloaded(connects, << >>)
  /\ sends' = Reloaded(sends, << >>)
  /\ wire' = Reloaded(wire, << >>)
  /\ messages' = Reloaded(messages, << >>)
  /\ decryptedMessages' = Reloaded(decryptedMessages, EmptyMap)
  /\ wipes' = <<NewWipe>>
  /\ UNCHANGED <<deliveredLog, redelivered, callSignals, registryVars, cryptoVars>>

\* App.handleRegister: the onboarding screen is shown while there is no current user.
HandleRegister(profile) ==
  /\ StoredUser = << >>
  /\ registerUser(profile)

\* The effect of App.tsx lines 50-54: init, once there is a current user.
InitWithCurrentUser ==
  /\ StoredUser # << >>
  /\ init(LocalUsername, OnMessage, OnCall)

\* The App from registration to the wipe, and the transport events in between.
WipeNext ==
  \/ \E p \in SessionProfiles : HandleRegister(p)
  \/ InitWithCurrentUser
  \/ \E u \in CallerUsernames : ConnectToUserCall(u)
  \/ \E u \in CallerUsernames : AppSendMessage(u)
  \/ \E r \in RemoteUsernames : PeerConnection(r)
  \/ \E c \in 1..MaxConns : InboundOpen(c)
  \/ \E k \in 1..MaxCalls : OutgoingOpen(k)
  \/ \E k \in 1..MaxCalls : TimerFire(k)
  \/ \E c \in 1..MaxConns : ConnClose(c)
  \/ TerminateSession

WipeSpec == Init /\ [][WipeNext]_vars

\* ------------------------------------------------------------ call signals
\* The peers that place a call to the local peer, and what they ask for.
CallingUsernames == {<<"bob">>, <<"eve">>, <<"carol">>}

CallKinds == {"audio", "video"}

\* Line 38: the first argument of this.onCallCallback?.('video', from).
SignalledKind(call) == "video"

\* Line 37: const from = call.peer.replace(this.ID_PREFIX, '').
SignalledFrom(call) == Replace(call.peer, ID_PREFIX)

\* peer.on('call'), lines 35-39: the consumer is handed one signal, if there is one.
PeerCall(call) ==
  /\ peer # Null
  /\ Len(callSignals) < MaxSignals
  /\ callSignals' =
       Append(callSignals,
              [call |-> call,
               handed |-> IF onCallCallback # Null
                          THEN <<[type |-> SignalledKind(call), from |-> SignalledFrom(call),
                                   to |-> onCallCallback]>>
                          ELSE << >>])
  /\ UNCHANGED <<svcVars, connVars, appVars, storeVars, registryVars, cryptoVars>>

CallNext ==
  \/ init(LocalUsername, OnMessage, OnCall)
  \/ \E r \in CallingUsernames, k \in CallKinds : PeerCall([peer |-> PeerId(r), kind |-> k])

CallSpec == Init /\ [][CallNext]_vars

\* ----------------------------------------------------------------- polling
\* signalingService.getMessagesForUser(username): the shared inbox hands over any batch
\* of messages addressed to the user, messages of earlier batches and the same message
\* twice in a batch included.
InboxMessages == RemoteMessages

GetMessagesForUser(username) ==
  {batch \in UNION {[1..n -> InboxMessages] : n \in 0..MaxBatch} :
     \A i \in DOMAIN batch : batch[i].recipient = username}

\* incoming.filter(m => !existingIds.has(m.id)), the ids being those of prev.
Filtered(prev, incoming) ==
  LET IsNew(m) == \A i \in DOMAIN prev : prev[i].id # m.id
  IN  SelectSeq(incoming, IsNew)

\* The updater handed to setMessages when incoming.length > 0.
PolledMessages(prev, incoming) ==
  IF Len(incoming) > 0 THEN prev \o Filtered(prev, incoming) ELSE prev

\* One tick of the polling interval, for the current user the init effect also ran for.
Poll(incoming) ==
  /\ peer # Null
  /\ messages' = PolledMessages(messages, incoming)
  /\ deliveredLog' =
       deliveredLog \o
         [i \in 1..(Len(messages') - Len(messages)) |->
            [msg |-> messages'[Len(messages) + i], from |-> <<"inbox">>, to |-> <<"setMessages">>]]
  /\ redelivered' =
       (redelivered \/ \E i \in DOMAIN incoming :
                         \/ \E j \in DOMAIN deliveredLog : deliveredLog[j].msg.id = incoming[i].id
                         \/ \E j \in 1..(i - 1) : incoming[j].id = incoming[i].id)
  /\ UNCHANGED <<svcVars, connVars, decryptedMessages, localVars>>

\* The service with its connections, and the inbox polled next to them.
PollNext ==
  \/ ConnNext
  \/ DataNext
  \/ \E incoming \in GetMessagesForUser(LocalUsername) : Poll(incoming)

PollSpec == Init /\ [][PollNext]_vars

\* ------------------------------------------------------- username spelling
\* Usernames as a caller of the service may spell them.
SpelledUsernames == {<<"bob">>, <<"Bob">>}

\* sendMessage called with a message of its own, as the service's interface allows.
SendMessageCall(recipient) ==
  /\ Calls < MaxCalls
  /\ sendMessage([id |-> NewMessageId(Len(sends) + 1), sender |-> LocalUsername,
                  recipient |-> recipient])
  /\ UNCHANGED <<svcVars, connections, appVars, localVars>>

SpellingNext ==
  \/ init(LocalUsername, OnMessage, OnCall)
  \/ \E u \in SpelledUsernames : ConnectToUserCall(u)
  \/ \E u \in SpelledUsernames : SendMessageCall(u)
  \/ \E k \in 1..MaxCalls : OutgoingOpen(k)
  \/ \E k \in 1..MaxCalls : TimerFire(k)
  \/ \E c \in 1..MaxConns : ConnClose(c)

SpellingSpec == Init /\ [][SpellingNext]_vars

\* -------------------------------------------------------------- decryptAll
\* The content of a message is a one-element sequence holding the string, or empty when
\* the payload a peer sent has no string there: line 51 takes `data as Message` unchecked.
NoString == << >>

\* if (!newDecrypted[msg.id]): a missing entry and an empty text both count as absent.
Absent(newDecrypted, id) == ~MapHas(newDecrypted, id) \/ newDecrypted[id] = << >>

\* The for loop of lines 71-76 over msgs.  decryptMessage evaluates
\* encryptedData.startsWith before its try block, so for a content that is no string its
\* promise rejects and the await of line 73 throws out of the loop.
RECURSIVE DecryptLoop(_, _)
DecryptLoop(msgs, newDecrypted) ==
  IF msgs = << >> THEN [threw |-> FALSE, newDecrypted |-> newDecrypted]
  ELSE LET msg == Head(msgs)
       IN  IF ~Absent(newDecrypted, msg.id) THEN DecryptLoop(Tail(msgs), newDecrypted)
           ELSE IF msg.content = NoString THEN [threw |-> TRUE, newDecrypted |-> newDecrypted]
           ELSE DecryptLoop(Tail(msgs),
                            MapSet(newDecrypted, msg.id, decryptMessage(msg.content[1])))

\* decryptAll, lines 68-78: setDecryptedMessages is reached only when the loop ended.
DecryptAll(msgs, decryptedSoFar) ==
  LET run == DecryptLoop(msgs, decryptedSoFar)
  IN  IF run.threw THEN decryptedSoFar ELSE run.newDecrypted

\* What a peer puts in the content field: a payload of encryptMessage, a payload that is
\* no base64, a text without the prefix, no string at all.
Contents ==
  {<<encryptMessage(Str(<<"h", "i">>), Str(<<"p", "u", "b", "_", "Q", "k", "3", "x", "Z", "9", "a", "b">>))>>,
   <<EncryptedPrefix \o Str(<<"!", "!">>)>>,
   <<Str(<<"h", "i">>)>>,
   NoString}

ContentMessages ==
  {[id |-> m.id, sender |-> m.sender, recipient |-> m.recipient, content |-> c] :
     m \in RemoteMessages, c \in Contents}

\* A delivery and the effect of lines 67-80 that the changed list sets off.  Every await
\* of decryptAll settles in a microtask, so the run ends before the next event.
ConnDataShown(c, data) ==
  /\ Received(c, data)
  /\ decryptedMessages' = DecryptAll(messages', decryptedMessages)

DecryptNext ==
  \/ init(LocalUsername, OnMessage, OnCall)
  \/ \E r \in RemoteUsernames : PeerConnection(r)
  \/ \E c \in 1..MaxConns : InboundOpen(c)
  \/ \E c \in 1..MaxConns : ConnClose(c)
  \/ \E c \in 1..MaxConns, d \in ContentMessages : ConnDataShown(c, d)

DecryptSpec == Init /\ [][DecryptNext]_vars

\* ----------------------------------------------------------- write failure
\* What a failing conn.send does is the transport's: it throws to its caller, or it
\* reports nothing and closes the connection, whose 'close' handler then runs.
WriteFailures == {"throws", "closes"}

\* sendMessage finds an open channel in the table and conn.send (line 104) fails.  No
\* try block surrounds the call: an exception rejects the promise of sendMessage, and in
\* neither case does a line of the method keep the message.
WriteFailure(recipient, failure) ==
  /\ Calls < MaxCalls
  /\ LET conn == MapGet(connections, recipient)
         msg == [id |-> NewMessageId(Len(sends) + 1), sender |-> LocalUsername,
                 recipient |-> recipient]
     IN  /\ CanSend(conn, conns)
         /\ sends' = Append(sends, [NewSend(msg) EXCEPT
                                      !.pc = "done",
                                      !.outcome = IF failure = "throws" THEN "rejected" ELSE "lost",
                                      !.conn = conn])
         /\ IF failure = "closes"
            THEN /\ conns' = [conns EXCEPT ![conn].open = FALSE, ![conn].closed = TRUE]
                 /\ connections' = IF conns[conn].handlers
                                   THEN MapDelete(connections, RemoteUsername(conn, conns))
                                   ELSE connections
            ELSE UNCHANGED <<conns, connections>>
  /\ UNCHANGED <<svcVars, connects, wire, appVars, localVars>>

WriteNext ==
  \/ ConnNext
  \/ \E u \in CallerUsernames, f \in WriteFailures : WriteFailure(u, f)

WriteSpec == Init /\ [][WriteNext]_vars

\* -------------------------------------------------------------- init again
\* The usernames and callbacks of the init calls: those of the first current user, and
\* those of the effect when it runs again for another one.
InitUsernames == {LocalUsername, <<"carol">>}

OnMessageCallbacks == {OnMessage, <<"handleIncomingMessage", "later">>}

OnCallCallbacks == {OnCall, <<"handleIncomingCall", "later">>}

\* init calls, and the inbound events the handlers of lines 31-39 and 50-54 dispatch.
InitNext ==
  \/ \E u \in InitUsernames, m \in OnMessageCallbacks, k \in OnCallCallbacks : init(u, m, k)
  \/ \E r \in RemoteUsernames : PeerConnection(r)
  \/ \E c \in 1..MaxConns : InboundOpen(c)
  \/ \E c \in 1..MaxConns, d \in RemoteMessages : ConnData(c, d)
  \/ PeerCall([peer |-> PeerId(<<"bob">>), kind |-> "video"])

InitSpec == Init /\ [][InitNext]_vars

\* ------------------------------------------------------------- properties
Resolved(k) == connects[k].result # "pending"

\* What the service still holds for a recipient: the messages of the sendMessage
\* invocations that are suspended in their await, in submission order.  The class has
\* no other field that keeps a message (lines 11-17).
PendingOutboundQueue(recipient) ==
  LET Held(s) == s.pc = "await" /\ s.msg.recipient = recipient
  IN  SelectSeq(sends, Held)

\* C1: an inbound message id is added to the consumer's list at most once, however
\* often the connections deliver it.
AtMostOnceDelivery ==
  \A i, j \in DOMAIN deliveredLog :
    deliveredLog[i].msg.id = deliveredLog[j].msg.id => i = j

\* C1 witness: an id the consumer had already taken from a connection arrived again.
SameIdArrivedTwice == redelivered /\ Len(deliveredLog) > 0

\* C2 as claimed: a sendMessage that ended without an open connection left its message
\* in the recipient's pending outbound queue.
FailedSendIsQueued ==
  \A i \in DOMAIN sends :
    (sends[i].pc = "done" /\ sends[i].outcome = "notOpen")
      => \E j \in DOMAIN PendingOutboundQueue(sends[i].msg.recipient) :
           PendingOutboundQueue(sends[i].msg.recipient)[j].msg = sends[i].msg

\* C3 as claimed: a message sent to a peer after its channel opened goes out after every
\* message that had been deferred for that peer before.
QueuedDrainedFirst ==
  \A j \in DOMAIN sends :
    sends[j].outcome = "sent" =>
      \A i \in sends[j].queuedBefore :
        sends[i].msg.recipient = sends[j].msg.recipient =>
          \E p, q \in DOMAIN wire : p < q /\ wire[p].send = i /\ wire[q].send = j

\* C4 as claimed: messages to one recipient reach the transport in the order of their
\* sendMessage calls.
SendOrderPreserved ==
  \A p, q \in DOMAIN wire :
    (p < q /\ wire[p].msg.recipient = wire[q].msg.recipient) => wire[p].send < wire[q].send

\* C5 as claimed: a connectToUser call made while another for the same username is
\* unresolved shares that call's handshake and its outcome.
ConcurrentConnectsCollapse ==
  \A k \in DOMAIN connects : \A j \in connects[k].overlap :
    /\ connects[j].conn = connects[k].conn
    /\ (Resolved(j) /\ Resolved(k)) => connects[j].result = connects[k].result

\* C6: connectToUser(username) with an open channel keyed by username resolves true at
\* once, creates no connection and leaves the connection table as it was.
ConnectIdempotentOnOpen ==
  [][\A u \in CallerUsernames :
       (/\ HasOpenChannel(u)
        /\ Len(connects') = Len(connects) + 1
        /\ connects'[Len(connects')].username = u)
       => /\ connects'[Len(connects')].result = "true"
          /\ connects'[Len(connects')].conn = Undefined
          /\ conns' = conns
          /\ connections' = connections]_vars

\* C6 witness: a call found its username's channel open and resolved true.
ConnectedOnOpenChannel ==
  \E k \in DOMAIN connects : connects[k].openAtCall /\ connects[k].result = "true"

\* C7: every connectToUser call resolves: at once when the service has no peer or the
\* table holds the username, and otherwise by the 'open' event or by the 5 s timer,
\* whichever comes first, whatever the transport does with the connection.
ConnectAlwaysResolves ==
  \A k \in 1..MaxCalls : (k \in DOMAIN connects) ~> (k \in DOMAIN connects /\ Resolved(k))

\* C7 witness: the timer resolved a call false and the transport opened the connection
\* only afterwards.
ResolvedBeforeLateOpen ==
  \E k \in DOMAIN connects :
    /\ connects[k].conn # Undefined
    /\ connects[k].result = "false"
    /\ conns[connects[k].conn].open

\* C8 as claimed: the connection of an attempt that timed out never opens into a channel
\* and never enters the connection table.
TimedOutAttemptStaysDead ==
  \A k \in DOMAIN connects :
    (connects[k].conn # Undefined /\ connects[k].result = "false")
      => /\ ~conns[connects[k].conn].open
         /\ \A u \in DOMAIN connections : connections[u] # connects[k].conn

\* C9: conn.send is called only on a connection that is open, and a sendMessage that
\* finds no open connection ends with the 'Connection not open' error and writes nothing.
NoWriteUnlessOpen ==
  [][/\ Len(wire') > Len(wire) =>
          /\ Len(wire') = Len(wire) + 1
          /\ conns'[wire'[Len(wire')].conn].open
          /\ sends'[wire'[Len(wire')].send].outcome = "sent"
     /\ \A i \in DOMAIN sends' :
          (sends'[i].outcome = "notOpen" /\ (i \notin DOMAIN sends \/ sends[i].pc = "await"))
            => wire' = wire]_vars

\* C9 witness: sendMessage found the recipient's connection in the table, not yet open,
\* and ended with the error.
RefusedOnUnopenedConn ==
  \E i \in DOMAIN sends :
    /\ sends[i].outcome = "notOpen"
    /\ \A k \in DOMAIN connects : connects[k].waiter # i

\* C10 as claimed: the sender of every message handed to the consumer is the username of
\* the peer whose connection carried it.
SenderIsChannelPeer ==
  \A i \in DOMAIN deliveredLog : deliveredLog[i].msg.sender = deliveredLog[i].from

\* C11 as claimed: every call invitation hands the call consumer exactly one signal, which
\* carries the invitation's kind and the username of the calling peer.
CallSignalMatchesInvitation ==
  \A i \in DOMAIN callSignals :
    /\ Len(callSignals[i].handed) = 1
    /\ callSignals[i].handed[1].type = callSignals[i].call.kind
    /\ PeerId(callSignals[i].handed[1].from) = callSignals[i].call.peer

\* C12: decryptMessage(encryptMessage(P, K)) is P for every text P and every recipient
\* key K: the empty text, a text holding '_via_', a text starting with 'encrypted_'.
RoundTrip ==
  \A i \in DOMAIN decrypted : \A j \in DOMAIN decrypted[i].of :
    decrypted[i].result = decrypted[i].of[j].message

\* C12 witness: a text that starts with 'encrypted_' and holds '_via_' came back.
RoundTripOfPayloadLikeText ==
  \E i \in DOMAIN decrypted : \E j \in DOMAIN decrypted[i].of :
    /\ StartsWith(decrypted[i].of[j].message, EncryptedPrefix)
    /\ Occurrences(decrypted[i].of[j].message, ViaSeparator) # {}
    /\ decrypted[i].result = decrypted[i].of[j].message

\* C13 as claimed: a payload encrypted for a key other than the key of the decrypting
\* session does not decrypt to its plaintext.
WrongKeyNeverDecrypts ==
  \A i \in DOMAIN decrypted : \A j \in DOMAIN decrypted[i].of : \A k \in DOMAIN decrypted[i].session :
    decrypted[i].session[k] # decrypted[i].of[j].recipientPublicKey
      => decrypted[i].result # decrypted[i].of[j].message

\* C14 as claimed: a content that encryptMessage did not make decrypts to the failure
\* value, and no content that encryptMessage made does.
DecryptFailureIsTyped ==
  \A i \in DOMAIN decrypted :
    /\ decrypted[i].encryptedData \in OtherPayloads => decrypted[i].result = SecureContent
    /\ decrypted[i].of # << >> => decrypted[i].result # SecureContent

\* C15 as claimed: once panicWipe has run, a payload encrypted before it no longer
\* decrypts to its plaintext.
WipedKeysDecryptNothing ==
  \A i \in DOMAIN decrypted : \A j \in DOMAIN decrypted[i].of :
    decrypted[i].of[j].wipedSince => decrypted[i].result # decrypted[i].of[j].message

\* C16: the account wipe, run in any state, leaves no stored identity, no peer, no
\* connection made or in the making and no message held back; run again on what it left,
\* it changes nothing.  (A step is a wipe when it records one or empties what only a
\* wipe empties; a wipe that does neither has changed nothing.)
WipeLeavesNothing ==
  [][(\/ wipes' # wipes
      \/ storage # EmptyMap /\ storage' = EmptyMap
      \/ peer # Null /\ peer' = Null
      \/ conns # << >> /\ conns' = << >>
      \/ connects # << >> /\ connects' = << >>
      \/ sends # << >> /\ sends' = << >>)
       => /\ NothingLeft'
          /\ wipes'[1].again => UNCHANGED pageVars]_vars

\* C16 witness: a wipe ran while a sendMessage was waiting for a handshake in flight, and
\* the wipe was run again right after.
WipedMidHandshakeThenAgain ==
  \E i \in DOMAIN wipes : wipes[i].again /\ wipes[i].afterMidHandshake

\* The username the identity functions derive a name from: lower case, trimmed.
Normalized(name) == Trimmed(LowerCased(name))

\* The stored identities of a storage whose username normalizes like name.
Registered(store, name) ==
  {store[k][2] : k \in {x \in DOMAIN store : x = CurrentUserKey /\
                                             Normalized(store[x][2].username) = Normalized(name)}}

\* C17 as claimed: registerUser returns false and leaves the storage as it was when an
\* identity of the same normalized username is stored, and otherwise stores the profile
\* and returns true.
RegisterRefusesTakenName ==
  \A i \in DOMAIN registrations :
    LET r == registrations[i]
    IN  IF Registered(r.before, r.profile.username) # {}
        THEN ~r.result /\ r.after = r.before
        ELSE r.result /\ Registered(r.after, r.profile.username) = {r.profile}

\* C18 as claimed: findOrCreateUser returns an identity, and for a name nothing is stored
\* for it stores that identity, so that the next call with the name returns the same.
FindOrCreateRegisters ==
  \A i \in DOMAIN lookups :
    lookups[i].op = "findOrCreateUser" =>
      /\ Len(lookups[i].result) = 1
      /\ Registered(lookups[i].before, lookups[i].input) = {}
           => \E id \in Registered(lookups[i].after, lookups[i].input) :
                id.publicKey = lookups[i].result[1].publicKey
      /\ \A j \in DOMAIN lookups :
           (lookups[j].op = "findOrCreateUser" /\ lookups[j].input = lookups[i].input)
             => lookups[j].result = lookups[i].result

\* The identities the registry operations have handed out or stored, with the name each
\* was made for.
Produced ==
  UNION {{[name |-> lookups[i].input, publicKey |-> lookups[i].result[j].publicKey] :
            j \in DOMAIN lookups[i].result} : i \in DOMAIN lookups}
  \cup {[name |-> registrations[i].profile.username,
         publicKey |-> registrations[i].profile.publicKey] : i \in DOMAIN registrations}

\* C19 as claimed: two identities produced for names that normalize to the same username
\* have the same publicKey.
OneIdentityPerName ==
  \A a, b \in Produced : Normalized(a.name) = Normalized(b.name) => a.publicKey = b.publicKey

\* C20 as claimed: a sendMessage that wrote its message to an open connection and one
\* that did not return different values.
SendResultTellsDeferred ==
  \A i, j \in DOMAIN sends :
    (sends[i].outcome = "sent" /\ sends[j].outcome = "notOpen")
      => SendMessageResult(sends[i].outcome) # SendMessageResult(sends[j].outcome)

\* C29: an init call on a service that has a peer leaves the peer, its identity and the
\* connection table as they are and replaces the two callbacks only, and every inbound
\* message or call is dispatched to the callbacks registered at that moment.
LaterInitReplacesCallbacksOnly ==
  [][/\ (peer # Null /\ <<onMessageCallback, onCallCallback>>' # <<onMessageCallback, onCallCallback>>)
        => /\ peer' = peer
           /\ UNCHANGED <<connVars, appVars, localVars>>
     /\ Len(deliveredLog') > Len(deliveredLog)
        => deliveredLog'[Len(deliveredLog')].to = onMessageCallback'
     /\ Len(callSignals') > Len(callSignals)
        => /\ onCallCallback' = Null => callSignals'[Len(callSignals')].handed = << >>
           /\ onCallCallback' # Null
              => /\ Len(callSignals'[Len(callSignals')].handed) = 1
                 /\ callSignals'[Len(callSignals')].handed[1].to = onCallCallback']_vars

\* A message and a call went to the first callbacks, and after a later init a message
\* and a call went to the callbacks of that init, on the peer of the first init.
DispatchedToLaterCallbacks ==
  /\ peer \in {PeerId(u) : u \in InitUsernames}
  /\ \E i, j \in DOMAIN deliveredLog :
       i < j /\ deliveredLog[i].to = OnMessage /\ deliveredLog[j].to # OnMessage
  /\ \E i, j \in DOMAIN callSignals :
       /\ i < j
       /\ callSignals[i].handed # << >> /\ callSignals[j].handed # << >>
       /\ callSignals[i].handed[1].to = OnCall /\ callSignals[j].handed[1].to # OnCall
       /\ onCallCallback # OnCall

\* C21: a message taken from a polled batch is added to the consumer's list only if no
\* message of that id was added before, by a poll, by a direct channel or from an
\* earlier place in the same batch.
PolledMessageDeliveredOnce ==
  \A i, j \in DOMAIN deliveredLog :
    (deliveredLog[j].from = <<"inbox">> /\ deliveredLog[i].msg.id = deliveredLog[j].msg.id)
      => i = j

\* C30: no two messages of the App's list have the same id.
MessageIdsUnique ==
  \A i, j \in DOMAIN messages : messages[i].id = messages[j].id => i = j

\* C24: every table entry that an inbound 'connection' event created is an open
\* connection, one on which sendMessage to that peer writes.
InboundEntryIsOpen ==
  \A u \in DOMAIN connections :
    conns[connections[u]].dir = "in" => CanSend(connections[u], conns)

\* C25: when a connection closes its entry leaves the table, so the table never holds
\* a closed connection, nothing is written on one, and a connectToUser for a peer
\* without an entry starts a handshake on a connection of its own.
ClosedChannelLeavesTable ==
  [][/\ \A u \in DOMAIN connections' : ~conns'[connections'[u]].closed
     /\ \A c \in DOMAIN conns :
          (~conns[c].closed /\ conns'[c].closed /\ MapGet(connections, RemoteUsername(c, conns)) = c)
            => ~MapHas(connections', RemoteUsername(c, conns))
     /\ Len(wire') > Len(wire) => ~conns'[wire'[Len(wire')].conn].closed
     /\ (Len(connects') > Len(connects) /\ peer # Null
           /\ ~MapHas(connections, connects'[Len(connects')].username))
        => /\ connects'[Len(connects')].result = "pending"
           /\ connects'[Len(connects')].conn = Len(conns) + 1
           /\ conns' = Append(conns, NewOutgoing(connects'[Len(connects')].username))]_vars

\* An inbound channel closed, and the next connectToUser for its peer made the
\* connection that was created right after it.
FreshHandshakeAfterClose ==
  \E c \in DOMAIN conns, k \in DOMAIN connects :
    /\ conns[c].dir = "in" /\ conns[c].closed
    /\ connects[k].conn = c + 1
    /\ connects[k].username = RemoteUsername(c, conns)

\* C26: no two connections to the same peer are open at once.
OneLiveConnectionPerPeer ==
  \A c, d \in DOMAIN conns :
    (conns[c].open /\ conns[d].open /\ conns[c].peer = conns[d].peer) => c = d

\* C27: the entry of a peer leaves the table only when the connection it refers to
\* closes; the close of an older connection to that peer leaves it in place.
EntryOutlivesOlderClose ==
  [][\A u \in DOMAIN connections :
       ~MapHas(connections', u) => conns'[connections[u]].closed]_vars

\* C28: when connectToUser(u) resolves true, the table has the connection of that
\* handshake under u, and a sendMessage that was waiting for it transmits.
KeysConsistent ==
  [][\A k \in DOMAIN connects :
       (connects[k].result = "pending" /\ connects'[k].result = "true")
         => /\ MapGet(connections', connects[k].username) = connects[k].conn
            /\ connects[k].waiter # 0 => sends'[connects[k].waiter].outcome = "sent"]_vars

\* A content decryptMessage cannot turn into a text: no string, or the prefix followed
\* by something that is no base64 of UTF-8.
Undecryptable(content) ==
  \/ content = NoString
  \/ /\ StartsWith(content[1], EncryptedPrefix)
     /\ LET binary == Atob(SplitFirst(ReplaceAtStart(content[1], EncryptedPrefix), ViaSeparator))
        IN  ~binary.ok \/ ~Utf8Decode(binary.bytes).ok

\* C22: once the decryptAll run that a delivery set off has ended, every message of the
\* list has a display text, those after an undecryptable message included, and the
\* text of an undecryptable message is the placeholder.
EveryListedMessageShown ==
  \A i \in DOMAIN messages :
    /\ MapHas(decryptedMessages, messages[i].id)
    /\ Undecryptable(messages[i].content) => decryptedMessages[messages[i].id] = SecureContent

\* C23: after conn.send failed in a sendMessage, the connection is in the table no
\* more, no later sendMessage writes on it, the promise of the call is not rejected,
\* and the message is held for a later delivery.
FailedWriteDemotesChannel ==
  \A i \in DOMAIN sends :
    sends[i].outcome \in {"rejected", "lost"}
      => /\ \A u \in DOMAIN connections : connections[u] # sends[i].conn
         /\ \A w \in DOMAIN wire : wire[w].send > i => wire[w].conn # sends[i].conn
         /\ sends[i].outcome # "rejected"
         /\ \E q \in DOMAIN PendingOutboundQueue(sends[i].msg.recipient) :
              PendingOutboundQueue(sends[i].msg.recipient)[q].msg.id = sends[i].msg.id

====
